---- MODULE Spec2Model ----
(***************************************************************************)
(* A model of the dependency-injection container of src/index.ts (the      *)
(* revision of lines 296-612): ServiceHost, ServiceScope, the lifetime     *)
(* dispatch of getFromTaggedService, the factories synthesized by          *)
(* ServiceHost.#createServiceFactory, and DisposableRegistry's teardown.   *)
(*                                                                         *)
(* Values.  0 is undefined (the only primitive of the model, and falsy);   *)
(* n >= 1 is the object heap[n]; a negative number is a resolution context *)
(* used as a value: -1 the host, -(s+1) the scope s.                       *)
(* Contexts.  0 is the ServiceHost, s >= 1 the s-th ServiceScope it made.  *)
(***************************************************************************)
EXTENDS Integers, Sequences, FiniteSets, TLC

VARIABLES
    services,   \* ServiceHost.#services: key -> TaggedService (NoTag: no entry)
    nTags,      \* number of TaggedService records created so far (their identity)
    nScopes,    \* number of ServiceScope objects created by createScope
    scoped,     \* scoped[s]: ServiceScope.#services of scope s, TaggedService id -> value
    dispose,    \* dispose[c]: DisposableRegistry.#dispose of context c
    fresh,      \* fresh[c]: a teardown of c has begun and nothing was registered on c since
    heap,       \* the objects constructed so far: [cls, arg, props]
    tasks,      \* the teardown calls that are awaiting an asynchronous release
    nTasks,     \* number of teardown calls made so far
    nRegs,      \* number of register calls the client has made
    last        \* the last operation of the client and its outcome

vars == <<services, nTags, nScopes, scoped, dispose, fresh, heap, tasks, nTasks,
          nRegs, last>>

------------------------------------------------------------------------------
(* Bounds of the model. *)

MaxScopes == 2      \* scopes created
MaxObjs == 3        \* objects constructed, and the length of a disposal registry
MaxTasks == 2       \* teardown calls
MaxAdds == 2        \* add* calls
MaxRegisters == 1   \* register calls made by the client

------------------------------------------------------------------------------
(* The client's program: the service keys, the classes and their metadata. *)

Undefined == 0
Host == 0
Scopes == 1..MaxScopes
Contexts == {Host} \cup Scopes
CtxValue(c) == -(c + 1)

\* The keys the client registers and resolves. "ServiceCollection" is the
\* class ServiceCollection of the library used as a key.
Keys == {"A", "B", "ServiceCollection"}

\* The keys ServiceHost.get answers with the host itself, and ServiceScope.get
\* with the scope itself.
HostSelfKeys == {"ServiceCollection", "ServiceHost", "ServiceContainer"}
ScopeSelfKeys == {"ServiceCollection"}

\* The key the client binds to callables of every kind.
CallableKeys == {"F"}

\* Every key of the model: the domain of the host's map.
AllKeys == Keys \cup HostSelfKeys \cup CallableKeys

\* The metadata recorded by the inject decorator for a class: the ordered
\* (property, dependency key) pairs. Class B declares one injected property,
\* class C two.
getInjectionMetadata(cls) ==
    CASE cls = "B" -> << <<"a", "A">> >>
      [] cls = "C" -> << <<"a", "A">>, <<"c", "ServiceCollection">> >>
      [] OTHER -> << >>

\* The disposal capabilities of the client's classes: A and W have both
\* Symbol.asyncDispose and Symbol.dispose, B and V only Symbol.dispose, P
\* (the plain object an arrow-function factory returns) none.
ClassCaps(cls) ==
    CASE cls \in {"A", "W"} -> {"async", "sync"}
      [] cls \in {"B", "V"} -> {"sync"}
      [] OTHER -> {}

\* The binding shapes of CompatibleService the client passes to add*:
\*   class: a constructor; fn: an arrow function, ctx => new P() or, with no
\*   class, ctx => undefined; args: the empty array of constructor arguments
\*   (the key is constructed); value: an object of class V or W the client
\*   has built; undefined: the primitive.
\* The client's services for each key are drawn from these; a class bound
\* under the key it injects (B under A) would recurse and is not drawn.
ServiceShapes(key) ==
    CASE key = "A" -> {[shape |-> "class", cls |-> "A"],
                       [shape |-> "fn", cls |-> "P"],
                       [shape |-> "value", cls |-> "V"],
                       [shape |-> "value", cls |-> "W"],
                       [shape |-> "undefined", cls |-> ""]}
      [] key = "B" -> {[shape |-> "class", cls |-> "B"],
                       [shape |-> "args", cls |-> "B"],
                       [shape |-> "class", cls |-> "C"]}
      [] key = "F" -> {[shape |-> "class", cls |-> "A"],
                       [shape |-> "fn", cls |-> "P"],
                       [shape |-> "fn", cls |-> ""]}
      [] OTHER -> {[shape |-> "fn", cls |-> "P"]}

NoService == [shape |-> "none", cls |-> "", val |-> 0]
NoTag == [id |-> 0, tag |-> "none", service |-> NoService, store |-> Undefined]

------------------------------------------------------------------------------
(* Resolution, as pure functions of the container state st =                *)
(* [services, scoped, dispose, fresh, heap, inv, calls, deps]; inv collects *)
(* the factory invocations of the operation under way, calls the calls they *)
(* made of the client's callables, each with its outcome, and deps the gets *)
(* that inject made for the declared dependencies, each with its outcome. A *)
(* result is [st, v, err]: the state left behind, the value returned, and   *)
(* the error thrown ("" if none).                                           *)

Return(st, v) == [st |-> st, v |-> v, err |-> ""]
Throw(st, e) == [st |-> st, v |-> Undefined, err |-> e]

ScopeMisuse == "Cannot create service outside of scope"

\* The capabilities of a value that is an object: a context implements
\* Symbol.asyncDispose, a heap object has those of its class.
CapsOf(h, v) == IF v < 0 THEN {"async"} ELSE ClassCaps(h[v].cls)

\* DisposableRegistry.register, through the callback of context cb.
register(st, cb, disposable) ==
    [st EXCEPT !.dispose[cb] = Append(@, disposable), !.fresh[cb] = FALSE]

\* registerIfDisposable of #createServiceFactory: the `in` operator throws a
\* TypeError on a primitive.
registerIfDisposable(st, instance, cb) ==
    IF instance = Undefined
    THEN Throw(st, "TypeError: cannot use 'in' on a primitive")
    ELSE IF CapsOf(st.heap, instance) # {}
         THEN Return(register(st, cb, instance), instance)
         ELSE Return(st, instance)

RECURSIVE Get(_, _, _)

\* The outcome r of collection.get(key) called by inject for a declared
\* dependency, noted in deps.
Asked(r, collection, key) ==
    [r EXCEPT !.st.deps = Append(@, [collection |-> collection, key |-> key,
                                     v |-> r.v, err |-> r.err])]

RECURSIVE injectProperties_OnHost(_, _, _, _, _)

\* The loop of inject resolving the dependencies on the host whatever the
\* context inject was called on.
injectProperties_OnHost(st, ctx, value, metadata, i) ==
    IF i > Len(metadata)
    THEN Return(st, value)
    ELSE LET r == Asked(Get(st, Host, metadata[i][2]), Host, metadata[i][2])
         IN  IF r.err # ""
             THEN r
             ELSE injectProperties_OnHost(
                      [r.st EXCEPT !.heap[value].props =
                                       Append(@, <<metadata[i][1], r.v>>)],
                      ctx, value, metadata, i + 1)

RECURSIVE injectProperties(_, _, _, _, _)

\* The loop of ServiceCollection.inject: value[key] = this.get(injectService).
injectProperties(st, ctx, value, metadata, i) ==
    IF i > Len(metadata)
    THEN Return(st, value)
    ELSE LET r == Asked(Get(st, ctx, metadata[i][2]), ctx, metadata[i][2])
         IN  IF r.err # ""
             THEN r
             ELSE injectProperties(
                      [r.st EXCEPT !.heap[value].props =
                                       Append(@, <<metadata[i][1], r.v>>)],
                      ctx, value, metadata, i + 1)

\* ServiceCollection.inject(service, ...props) on context ctx: an arrow
\* function has no prototype and is no constructor, so it throws before any
\* effect; a class is constructed with arg and its properties injected.
inject(st, ctx, service, arg) ==
    IF service.shape = "fn"
    THEN Throw(st, "TypeError: not a constructor")
    ELSE LET st1 == [st EXCEPT !.heap = Append(@, [cls |-> service.cls,
                                                   arg |-> arg,
                                                   props |-> << >>])]
         IN  injectProperties(st1, ctx, Len(st1.heap),
                              getInjectionMetadata(service.cls), 1)

\* anyService(collection): the callable invoked as a plain function. A class
\* constructor cannot be invoked without new; the arrow function returns a
\* new object, or undefined.
callPlain(st, service, collection) ==
    IF service.shape = "fn"
    THEN IF service.cls = ""
         THEN Return(st, Undefined)
         ELSE
         LET st1 == [st EXCEPT !.heap = Append(@, [cls |-> service.cls,
                                                   arg |-> Undefined,
                                                   props |-> << >>])]
         IN  Return(st1, Len(st1.heap))
    ELSE Throw(st, "TypeError: class constructor cannot be invoked without 'new'")

\* The outcome r of a call of the callable of binding id, noted in calls:
\* the path taken (collection.inject or the plain call), what it returned
\* and whether it threw.
Called(r, id, path) ==
    [r EXCEPT !.st.calls = Append(@, [id |-> id, path |-> path,
                                      v |-> r.v, ok |-> r.err = ""])]

\* The ServiceFactory made by #createServiceFactory(base, service), invoked as
\* tagged.factory(collection, cb).
factory(st, tagged, collection, cb) ==
    LET st0 == [st EXCEPT !.inv = Append(@, [id |-> tagged.id,
                                             collection |-> collection,
                                             cb |-> cb])]
        service == tagged.service
    IN  CASE service.shape \in {"class", "fn"} ->
               LET r == Called(inject(st0, collection, service,
                                      CtxValue(collection)),
                               tagged.id, "inject")
               IN  IF r.err = ""
                   THEN registerIfDisposable(r.st, r.v, cb)
                   ELSE LET p == Called(callPlain(r.st, service, collection),
                                        tagged.id, "plain")
                        IN  IF p.err = ""
                            THEN registerIfDisposable(p.st, p.v, cb)
                            ELSE p
          [] service.shape = "args" ->
               LET r == inject(st0, collection, service, Undefined)
               IN  IF r.err = ""
                   THEN registerIfDisposable(r.st, r.v, cb)
                   ELSE r
          [] OTHER -> registerIfDisposable(st0, service.val, cb)   \* a value

\* getFromTaggedService with the singleton store never consulted.
getFromTaggedService_NoStoreCheck(st, collection, key, cb) ==
    LET tagged == st.services[key]
    IN  CASE tagged.tag = "transient" -> factory(st, tagged, collection, cb)
          [] tagged.tag = "singleton" ->
               LET r == factory(st, tagged, collection, cb)
               IN  IF r.err = ""
                   THEN Return([r.st EXCEPT !.services[key].store = r.v], r.v)
                   ELSE r
          [] tagged.tag = "scoped" -> Throw(st, ScopeMisuse)
          [] OTHER -> Throw(st, "Invalid tag")

\* getFromTaggedService with a transient binding cached like a singleton.
getFromTaggedService_TransientCached(st, collection, key, cb) ==
    LET tagged == st.services[key]
    IN  CASE tagged.tag \in {"transient", "singleton"} ->
               IF tagged.store # Undefined
               THEN Return(st, tagged.store)
               ELSE LET r == factory(st, tagged, collection, cb)
                    IN  IF r.err = ""
                        THEN Return([r.st EXCEPT !.services[key].store = r.v], r.v)
                        ELSE r
          [] tagged.tag = "scoped" -> Throw(st, ScopeMisuse)
          [] OTHER -> Throw(st, "Invalid tag")

\* getFromTaggedService with a scoped binding constructed like a transient.
getFromTaggedService_ScopedConstructs(st, collection, key, cb) ==
    LET tagged == st.services[key]
    IN  CASE tagged.tag \in {"transient", "scoped"} ->
               factory(st, tagged, collection, cb)
          [] tagged.tag = "singleton" ->
               IF tagged.store # Undefined
               THEN Return(st, tagged.store)
               ELSE LET r == factory(st, tagged, collection, cb)
                    IN  IF r.err = ""
                        THEN Return([r.st EXCEPT !.services[key].store = r.v], r.v)
                        ELSE r
          [] OTHER -> Throw(st, "Invalid tag")

\* getFromTaggedService answering a scoped binding with the instance some
\* scope has cached, when there is one.
getFromTaggedService_ScopedFromSomeScope(st, collection, key, cb) ==
    LET tagged == st.services[key]
        caching == {s \in DOMAIN st.scoped : st.scoped[s][tagged.id] # Undefined}
    IN  CASE tagged.tag = "transient" -> factory(st, tagged, collection, cb)
          [] tagged.tag = "singleton" ->
               IF tagged.store # Undefined
               THEN Return(st, tagged.store)
               ELSE LET r == factory(st, tagged, collection, cb)
                    IN  IF r.err = ""
                        THEN Return([r.st EXCEPT !.services[key].store = r.v], r.v)
                        ELSE r
          [] tagged.tag = "scoped" ->
               IF caching # {}
               THEN Return(st, st.scoped[CHOOSE s \in caching : TRUE][tagged.id])
               ELSE Throw(st, ScopeMisuse)
          [] OTHER -> Throw(st, "Invalid tag")

\* getFromTaggedService taking a singleton for computed once its factory has
\* been invoked, whatever came of it: a placeholder is stored when it throws.
getFromTaggedService_ComputedOnThrow(st, collection, key, cb) ==
    LET tagged == st.services[key]
    IN  CASE tagged.tag = "transient" -> factory(st, tagged, collection, cb)
          [] tagged.tag = "singleton" ->
               IF tagged.store # Undefined
               THEN Return(st, tagged.store)
               ELSE LET r == factory(st, tagged, collection, cb)
                    IN  IF r.err = ""
                        THEN Return([r.st EXCEPT !.services[key].store = r.v], r.v)
                        ELSE Throw([r.st EXCEPT !.services[key].store =
                                                    CtxValue(collection)], r.err)
          [] tagged.tag = "scoped" -> Throw(st, ScopeMisuse)
          [] OTHER -> Throw(st, "Invalid tag")

\* getFromTaggedService(services, tagged, registerDisposable); key names the
\* entry of the host's map that holds tagged, whose store is written in place.
getFromTaggedService(st, collection, key, cb) ==
    LET tagged == st.services[key]
    IN  CASE tagged.tag = "transient" -> factory(st, tagged, collection, cb)
          [] tagged.tag = "singleton" ->
               IF tagged.store # Undefined
               THEN Return(st, tagged.store)
               ELSE LET r == factory(st, tagged, collection, cb)
                    IN  IF r.err = ""
                        THEN Return([r.st EXCEPT !.services[key].store = r.v], r.v)
                        ELSE r
          [] tagged.tag = "scoped" -> Throw(st, ScopeMisuse)
          [] OTHER -> Throw(st, "Invalid tag")

\* ServiceHost.getTag.
getTag(st, key) == IF key \in DOMAIN st.services THEN st.services[key] ELSE NoTag

\* ServiceCollection.get without the check for a missing binding.
collectionGet_NoTagCheck(st, key) ==
    getFromTaggedService(st, Host, key, Host)

\* ServiceCollection.get, on the host.
collectionGet(st, key) ==
    IF getTag(st, key) = NoTag
    THEN Return(st, Undefined)
    ELSE getFromTaggedService(st, Host, key, Host)

\* ServiceHost.get consulting the binding table before the identities.
hostGet_TableFirst(st, key) ==
    IF getTag(st, key) # NoTag
    THEN collectionGet(st, key)
    ELSE IF key \in HostSelfKeys
         THEN Return(st, CtxValue(Host))
         ELSE Return(st, Undefined)

\* ServiceHost.get.
hostGet(st, key) ==
    IF key \in HostSelfKeys
    THEN Return(st, CtxValue(Host))
    ELSE collectionGet(st, key)

\* ServiceScope.get with the scope's cache never consulted.
scopeGet_NoCacheRead(st, s, key) ==
    IF key \in ScopeSelfKeys
    THEN Return(st, CtxValue(s))
    ELSE LET tagged == getTag(st, key)
         IN  IF tagged = NoTag
             THEN hostGet(st, key)
             ELSE IF tagged.tag = "scoped"
                  THEN LET r == factory(st, tagged, s, s)
                       IN  IF r.err = ""
                           THEN Return([r.st EXCEPT
                                           !.scoped[s][tagged.id] = r.v], r.v)
                           ELSE r
                  ELSE getFromTaggedService(st, Host, key, Host)

\* ServiceScope.get resolving a non-scoped binding with the scope itself as
\* resolution context and disposal callback.
scopeGet_OwnContext(st, s, key) ==
    IF key \in ScopeSelfKeys
    THEN Return(st, CtxValue(s))
    ELSE LET tagged == getTag(st, key)
         IN  IF tagged = NoTag
             THEN hostGet(st, key)
             ELSE IF tagged.tag = "scoped"
                  THEN IF st.scoped[s][tagged.id] # Undefined
                       THEN Return(st, st.scoped[s][tagged.id])
                       ELSE LET r == factory(st, tagged, s, s)
                            IN  IF r.err = ""
                                THEN Return([r.st EXCEPT
                                                !.scoped[s][tagged.id] = r.v], r.v)
                                ELSE r
                  ELSE getFromTaggedService(st, s, key, s)

\* ServiceScope.get resolving a non-scoped binding on the parent but with
\* the scope's own disposal-registration callback.
scopeGet_OwnCallback(st, s, key) ==
    IF key \in ScopeSelfKeys
    THEN Return(st, CtxValue(s))
    ELSE LET tagged == getTag(st, key)
         IN  IF tagged = NoTag
             THEN hostGet(st, key)
             ELSE IF tagged.tag = "scoped"
                  THEN IF st.scoped[s][tagged.id] # Undefined
                       THEN Return(st, st.scoped[s][tagged.id])
                       ELSE LET r == factory(st, tagged, s, s)
                            IN  IF r.err = ""
                                THEN Return([r.st EXCEPT
                                                !.scoped[s][tagged.id] = r.v], r.v)
                                ELSE r
                  ELSE getFromTaggedService(st, Host, key, s)

\* ServiceScope.get, on scope s (its #base is the host).
scopeGet(st, s, key) ==
    IF key \in ScopeSelfKeys
    THEN Return(st, CtxValue(s))
    ELSE LET tagged == getTag(st, key)
         IN  IF tagged = NoTag
             THEN hostGet(st, key)
             ELSE IF tagged.tag = "scoped"
                  THEN IF st.scoped[s][tagged.id] # Undefined
                       THEN Return(st, st.scoped[s][tagged.id])
                       ELSE LET r == factory(st, tagged, s, s)
                            IN  IF r.err = ""
                                THEN Return([r.st EXCEPT
                                                !.scoped[s][tagged.id] = r.v], r.v)
                                ELSE r
                  ELSE getFromTaggedService(st, Host, key, Host)

Get(st, ctx, key) ==
    IF ctx = Host THEN hostGet(st, key) ELSE scopeGet(st, ctx, key)

------------------------------------------------------------------------------
(* Teardown: DisposableRegistry[Symbol.asyncDispose]. A call is a task      *)
(* [ctx, old, i, rel, idle]: old is oldDispose, i the position of the loop; *)
(* rel lists, in the order they happened, the release calls the task made   *)
(* and the completions of the asynchronous ones; idle tells that, when the  *)
(* call began, an earlier teardown of ctx had begun and nothing had been    *)
(* registered on ctx since. A task is in tasks while it awaits              *)
(* item[Symbol.asyncDispose]() of old[i]; when its loop ends it is recorded *)
(* in last.                                                                 *)

Event(i, o, ev) == [pos |-> i, obj |-> o, ev |-> ev]

RECURSIVE disposeLoop_NoAwait(_, _, _, _)

\* The loop with the await forgotten: item[Symbol.asyncDispose]() is called
\* and the loop goes on at once.
disposeLoop_NoAwait(h, old, i, rel) ==
    IF i > Len(old)
    THEN [i |-> i, state |-> "done", rel |-> rel]
    ELSE LET rel1 == IF "async" \in CapsOf(h, old[i])
                     THEN Append(rel, Event(i, old[i], "asyncStart"))
                     ELSE rel
         IN  disposeLoop_NoAwait(h, old, i + 1,
                 IF "sync" \in CapsOf(h, old[i])
                 THEN Append(rel1, Event(i, old[i], "sync"))
                 ELSE rel1)

RECURSIVE disposeLoop(_, _, _, _)

\* The for loop from position i, up to the next await or to its end. The
\* result is the position reached, the task's state and its release calls.
disposeLoop(h, old, i, rel) ==
    IF i > Len(old)
    THEN [i |-> i, state |-> "done", rel |-> rel]
    ELSE IF "async" \in CapsOf(h, old[i])
         THEN [i |-> i, state |-> "await",
               rel |-> Append(rel, Event(i, old[i], "asyncStart"))]
         ELSE disposeLoop(h, old, i + 1,
                  IF "sync" \in CapsOf(h, old[i])
                  THEN Append(rel, Event(i, old[i], "sync"))
                  ELSE rel)

\* The loop after the await on old[i] has completed: the rest of the body for
\* old[i], then the following items.
disposeResume(h, old, i, rel) ==
    LET rel1 == Append(rel, Event(i, old[i], "asyncEnd"))
    IN  disposeLoop(h, old, i + 1,
            IF "sync" \in CapsOf(h, old[i])
            THEN Append(rel1, Event(i, old[i], "sync"))
            ELSE rel1)

RECURSIVE disposeLoopThrowing_CatchAndGoOn(_, _, _, _, _)

\* The loop with each release in a try/catch that swallows the error.
disposeLoopThrowing_CatchAndGoOn(h, old, i, rel, f) ==
    IF i > Len(old)
    THEN [i |-> i, state |-> "done", rel |-> rel]
    ELSE IF "async" \in CapsOf(h, old[i])
         THEN [i |-> i, state |-> "await",
               rel |-> Append(rel, Event(i, old[i], "asyncStart"))]
         ELSE disposeLoopThrowing_CatchAndGoOn(h, old, i + 1,
                  IF "sync" \in CapsOf(h, old[i])
                  THEN Append(rel, Event(i, old[i],
                                         IF i = f THEN "syncThrow" ELSE "sync"))
                  ELSE rel, f)

RECURSIVE disposeLoopThrowing(_, _, _, _, _)

\* The for loop from position i when item[Symbol.dispose]() of old[f] throws
\* (f = 0: no release throws, and the loop is disposeLoop): the exception
\* leaves the loop and the async function, whose promise rejects.
disposeLoopThrowing(h, old, i, rel, f) ==
    IF i > Len(old)
    THEN [i |-> i, state |-> "done", rel |-> rel]
    ELSE IF "async" \in CapsOf(h, old[i])
         THEN [i |-> i, state |-> "await",
               rel |-> Append(rel, Event(i, old[i], "asyncStart"))]
         ELSE IF "sync" \in CapsOf(h, old[i])
              THEN IF i = f
                   THEN [i |-> i, state |-> "failed",
                         rel |-> Append(rel, Event(i, old[i], "syncThrow"))]
                   ELSE disposeLoopThrowing(h, old, i + 1,
                            Append(rel, Event(i, old[i], "sync")), f)
              ELSE disposeLoopThrowing(h, old, i + 1, rel, f)

\* The loop after the await on old[i] has completed, when
\* item[Symbol.dispose]() of old[f] throws.
disposeResumeThrowing(h, old, i, rel, f) ==
    LET rel1 == Append(rel, Event(i, old[i], "asyncEnd"))
    IN  IF "sync" \in CapsOf(h, old[i])
        THEN IF i = f
             THEN [i |-> i, state |-> "failed",
                   rel |-> Append(rel1, Event(i, old[i], "syncThrow"))]
             ELSE disposeLoopThrowing(h, old, i + 1,
                      Append(rel1, Event(i, old[i], "sync")), f)
        ELSE disposeLoopThrowing(h, old, i + 1, rel1, f)

\* The list left as it is: oldDispose is iterated without the swap.
disposeSwap_Keep(old) == old

\* What the call leaves in this.#dispose: the swap for an empty list.
disposeSwap(old) == << >>

------------------------------------------------------------------------------
(* The state machine. *)

NoTask == [ctx |-> Host, old |-> << >>, i |-> 0, rel |-> << >>, idle |-> FALSE]

Idle == [op |-> "none", ctx |-> Host, key |-> "", tagged |-> NoTag,
         v |-> Undefined, err |-> "", inv |-> << >>, calls |-> << >>,
         deps |-> << >>, again |-> FALSE, task |-> NoTask]

\* last after a teardown call has returned (its promise has resolved).
Disposed(task) == [Idle EXCEPT !.op = "disposed", !.ctx = task.ctx, !.task = task]

St == [services |-> services, scoped |-> scoped, dispose |-> dispose,
       fresh |-> fresh, heap |-> heap, inv |-> << >>, calls |-> << >>,
       deps |-> << >>]

Init ==
    /\ services = [k \in AllKeys |-> NoTag]
    /\ nTags = 0
    /\ nScopes = 0
    /\ scoped = [s \in Scopes |-> [id \in 1..MaxAdds |-> Undefined]]
    /\ dispose = [c \in Contexts |-> << >>]
    /\ fresh = [c \in Contexts |-> FALSE]
    /\ heap = << >>
    /\ tasks = << >>
    /\ nTasks = 0
    /\ nRegs = 0
    /\ last = Idle

\* A registration that updates the record of an already bound key in place,
\* keeping its identity and its store.
addService_InPlace(tag, key, sh) ==
    /\ nTags < MaxAdds
    /\ sh.shape = "value" => Len(heap) < MaxObjs
    /\ heap' = IF sh.shape = "value"
               THEN Append(heap, [cls |-> sh.cls, arg |-> Undefined, props |-> << >>])
               ELSE heap
    /\ services' = [services EXCEPT ![key] =
           [id |-> IF services[key] = NoTag THEN nTags + 1 ELSE services[key].id,
            tag |-> tag,
            service |-> [shape |-> sh.shape, cls |-> sh.cls,
                         val |-> IF sh.shape = "value" THEN Len(heap) + 1
                                                       ELSE Undefined],
            store |-> services[key].store]]
    /\ nTags' = nTags + 1
    /\ last' = Idle
    /\ UNCHANGED <<nRegs, nScopes, scoped, dispose, fresh, tasks, nTasks>>

\* #services.set(base, {tag, factory: #createServiceFactory(base, service),
\* store: undefined}). A value passed by the client is an object it has just
\* constructed.
addService(tag, key, sh) ==
    /\ nTags < MaxAdds
    /\ sh.shape = "value" => Len(heap) < MaxObjs
    /\ heap' = IF sh.shape = "value"
               THEN Append(heap, [cls |-> sh.cls, arg |-> Undefined, props |-> << >>])
               ELSE heap
    /\ services' = [services EXCEPT ![key] =
           [id |-> nTags + 1, tag |-> tag,
            service |-> [shape |-> sh.shape, cls |-> sh.cls,
                         val |-> IF sh.shape = "value" THEN Len(heap) + 1
                                                       ELSE Undefined],
            store |-> Undefined]]
    /\ nTags' = nTags + 1
    /\ last' = Idle
    /\ UNCHANGED <<nRegs, nScopes, scoped, dispose, fresh, tasks, nTasks>>

\* ServiceHost.addSingleton, addScoped and addTransient: called at any time,
\* for a key bound or not, with any of the client's services for the key.
addSingleton(K) == \E key \in K : \E sh \in ServiceShapes(key) :
                       addService("singleton", key, sh)
addScoped(K) == \E key \in K : \E sh \in ServiceShapes(key) :
                    addService("scoped", key, sh)
addTransient(K) == \E key \in K : \E sh \in ServiceShapes(key) :
                       addService("transient", key, sh)

\* ServiceContainer.createScope.
createScope ==
    /\ nScopes < MaxScopes
    /\ nScopes' = nScopes + 1
    /\ last' = Idle
    /\ UNCHANGED <<services, nTags, nRegs, scoped, dispose, fresh, heap, tasks, nTasks>>

\* The call op of the client on context ctx has had the outcome r: the
\* container is as the call left it, and last is the call and its outcome;
\* again tells that the client's call before it was a get of the same
\* binding.
Outcome(r, op, ctx, key, tagged) ==
    /\ Len(r.st.heap) <= MaxObjs
    /\ \A c \in Contexts : Len(r.st.dispose[c]) <= MaxObjs
    /\ services' = r.st.services
    /\ scoped' = r.st.scoped
    /\ dispose' = r.st.dispose
    /\ fresh' = r.st.fresh
    /\ heap' = r.st.heap
    /\ last' = [op |-> op, ctx |-> ctx, key |-> key, tagged |-> tagged,
                v |-> r.v, err |-> r.err, inv |-> r.st.inv,
                calls |-> r.st.calls, deps |-> r.st.deps,
                again |-> /\ op = "get" /\ last.op = "get"
                          /\ tagged # NoTag /\ last.tagged.id = tagged.id,
                task |-> NoTask]
    /\ UNCHANGED <<nTags, nRegs, nScopes, tasks, nTasks>>

\* ctx.get(key), on the host or on a scope.
GetOn(ctx, key) ==
    Outcome(Get(St, ctx, key), "get", ctx, key, getTag(St, key))

get(K) == \E ctx \in {Host} \cup (1..nScopes) : \E key \in K : GetOn(ctx, key)

\* ctx.inject(cls), called by the client with no constructor arguments.
InjectOn(ctx, cls) ==
    Outcome(inject(St, ctx, [shape |-> "class", cls |-> cls, val |-> Undefined],
                   Undefined),
            "inject", ctx, cls, NoTag)

injectCall(C) == \E ctx \in {Host} \cup (1..nScopes) : \E cls \in C : InjectOn(ctx, cls)

RemoveAt(seq, t) == SubSeq(seq, 1, t - 1) \o SubSeq(seq, t + 1, Len(seq))

\* A teardown that also empties the caches of its context: the singleton
\* stores for the host, the scoped cache for a scope.
DisposeOn_ClearingCaches(c) ==
    LET old == dispose[c]
        r == disposeLoop(heap, old, 1, << >>)
        task == [ctx |-> c, old |-> old, i |-> r.i, rel |-> r.rel,
                 idle |-> fresh[c]]
    IN  /\ nTasks < MaxTasks
        /\ nTasks' = nTasks + 1
        /\ dispose' = [dispose EXCEPT ![c] = disposeSwap(old)]
        /\ fresh' = [fresh EXCEPT ![c] = TRUE]
        /\ IF r.state = "await"
           THEN tasks' = Append(tasks, task) /\ last' = Idle
           ELSE tasks' = tasks /\ last' = Disposed(task)
        /\ services' = IF c = Host
                       THEN [k \in DOMAIN services |->
                                [services[k] EXCEPT !.store = Undefined]]
                       ELSE services
        /\ scoped' = IF c = Host
                     THEN scoped
                     ELSE [scoped EXCEPT ![c] = [id \in DOMAIN @ |-> Undefined]]
        /\ UNCHANGED <<nTags, nRegs, nScopes, heap>>

\* ctx[Symbol.asyncDispose](), which is this.disposeRegistry's: the call up to
\* its first await, or to its end.
DisposeOn(c) ==
    LET old == dispose[c]
        r == disposeLoop(heap, old, 1, << >>)
        task == [ctx |-> c, old |-> old, i |-> r.i, rel |-> r.rel,
                 idle |-> fresh[c]]
    IN  /\ nTasks < MaxTasks
        /\ nTasks' = nTasks + 1
        /\ dispose' = [dispose EXCEPT ![c] = disposeSwap(old)]
        /\ fresh' = [fresh EXCEPT ![c] = TRUE]
        /\ IF r.state = "await"
           THEN tasks' = Append(tasks, task) /\ last' = Idle
           ELSE tasks' = tasks /\ last' = Disposed(task)
        /\ UNCHANGED <<services, nTags, nRegs, nScopes, scoped, heap>>

asyncDispose == \E c \in {Host} \cup (1..nScopes) : DisposeOn(c)

\* The asynchronous release a task awaits completes and the task goes on, up
\* to its next await or to its end.
resume ==
    \E t \in 1..Len(tasks) :
        LET r == disposeResume(heap, tasks[t].old, tasks[t].i, tasks[t].rel)
            task == [tasks[t] EXCEPT !.i = r.i, !.rel = r.rel]
        IN  /\ IF r.state = "await"
               THEN tasks' = [tasks EXCEPT ![t] = task] /\ last' = Idle
               ELSE tasks' = RemoveAt(tasks, t) /\ last' = Disposed(task)
            /\ UNCHANGED <<services, nTags, nRegs, nScopes, scoped, dispose, fresh,
                           heap, nTasks>>

\* last after a teardown call has failed: its promise has rejected with the
\* error of the release.
ReleaseError == "release failed"

Failed(task) == [Idle EXCEPT !.op = "disposeFailed", !.ctx = task.ctx,
                             !.err = ReleaseError, !.task = task]

\* What a teardown call does with the outcome r of its loop: it awaits, it
\* ends, or it fails.
Settle(r, task, t, rest) ==
    CASE r.state = "await" ->
           /\ tasks' = IF t = 0 THEN Append(tasks, task)
                                ELSE [tasks EXCEPT ![t] = task]
           /\ last' = Idle
      [] r.state = "done" -> tasks' = rest /\ last' = Disposed(task)
      [] OTHER -> tasks' = rest /\ last' = Failed(task)

\* ctx[Symbol.asyncDispose]() when the synchronous release of old[f] throws.
DisposeThrowingOn(c, f) ==
    LET old == dispose[c]
        r == disposeLoopThrowing(heap, old, 1, << >>, f)
        task == [ctx |-> c, old |-> old, i |-> r.i, rel |-> r.rel,
                 idle |-> fresh[c]]
    IN  /\ nTasks < MaxTasks
        /\ nTasks' = nTasks + 1
        /\ dispose' = [dispose EXCEPT ![c] = disposeSwap(old)]
        /\ fresh' = [fresh EXCEPT ![c] = TRUE]
        /\ Settle(r, task, 0, tasks)
        /\ UNCHANGED <<services, nTags, nRegs, nScopes, scoped, heap>>

asyncDisposeThrowing ==
    \E c \in {Host} \cup (1..nScopes) : \E f \in 1..Len(dispose[c]) :
        DisposeThrowingOn(c, f)

\* The asynchronous release a task awaits completes and the task goes on,
\* the synchronous release of old[f] throwing.
resumeThrowing ==
    \E t \in 1..Len(tasks) : \E f \in tasks[t].i..Len(tasks[t].old) :
        LET r == disposeResumeThrowing(heap, tasks[t].old, tasks[t].i,
                                       tasks[t].rel, f)
            task == [tasks[t] EXCEPT !.i = r.i, !.rel = r.rel]
        IN  /\ Settle(r, task, t, RemoveAt(tasks, t))
            /\ UNCHANGED <<services, nTags, nRegs, nScopes, scoped, dispose, fresh,
                           heap, nTasks>>

\* The asynchronous release a task awaits rejects: the await throws and the
\* task's promise rejects.
reject ==
    \E t \in 1..Len(tasks) :
        LET i == tasks[t].i
            task == [tasks[t] EXCEPT !.rel =
                        Append(@, Event(i, tasks[t].old[i], "asyncReject"))]
        IN  /\ tasks' = RemoveAt(tasks, t)
            /\ last' = Failed(task)
            /\ UNCHANGED <<services, nTags, nRegs, nScopes, scoped, dispose, fresh,
                           heap, nTasks>>

\* ctx.disposeRegistry.register(x), called by the client with an object x
\* it holds.
registerCall ==
    \E ctx \in {Host} \cup (1..nScopes) : \E x \in 1..Len(heap) :
        /\ nRegs < MaxRegisters
        /\ Len(dispose[ctx]) < MaxObjs
        /\ nRegs' = nRegs + 1
        /\ dispose' = register(St, ctx, x).dispose
        /\ fresh' = register(St, ctx, x).fresh
        /\ last' = Idle
        /\ UNCHANGED <<services, nTags, nScopes, scoped, heap, tasks, nTasks>>

\* Registration and resolution, on the host and through its scopes.
Next ==
    \/ addSingleton(Keys)
    \/ addScoped(Keys)
    \/ addTransient(Keys)
    \/ createScope
    \/ get(Keys)

Spec == Init /\ [][Next]_vars

\* Registration, resolution and teardown of the host and of its scopes, for
\* the one key A.
TeardownKeys == {"A"}

NextTeardown ==
    \/ addSingleton(TeardownKeys)
    \/ addScoped(TeardownKeys)
    \/ addTransient(TeardownKeys)
    \/ createScope
    \/ get(TeardownKeys)
    \/ asyncDispose
    \/ resume

SpecTeardown == Init /\ [][NextTeardown]_vars

\* Registration and resolution of the key A, and inject of the class C
\* called by the client.
InjectedClasses == {"C"}

NextInject ==
    \/ addSingleton(TeardownKeys)
    \/ addScoped(TeardownKeys)
    \/ addTransient(TeardownKeys)
    \/ createScope
    \/ get(TeardownKeys)
    \/ injectCall(InjectedClasses)

SpecInject == Init /\ [][NextInject]_vars

\* Registration and resolution of the key F, bound to a class, to a function
\* that returns an object or to a function that returns undefined.
NextCallable ==
    \/ addSingleton(CallableKeys)
    \/ addScoped(CallableKeys)
    \/ addTransient(CallableKeys)
    \/ createScope
    \/ get(CallableKeys)

SpecCallable == Init /\ [][NextCallable]_vars

\* Registration and resolution of the key F, registration of objects by
\* the client, and teardown of the host and of its scopes.
NextRegister ==
    \/ addSingleton(CallableKeys)
    \/ addScoped(CallableKeys)
    \/ addTransient(CallableKeys)
    \/ createScope
    \/ get(CallableKeys)
    \/ registerCall
    \/ asyncDispose
    \/ resume

SpecRegister == Init /\ [][NextRegister]_vars

\* Registration, resolution and teardown for the key A, with releases that
\* may fail.
NextFailing ==
    \/ addSingleton(TeardownKeys)
    \/ addScoped(TeardownKeys)
    \/ addTransient(TeardownKeys)
    \/ createScope
    \/ get(TeardownKeys)
    \/ asyncDispose
    \/ resume
    \/ asyncDisposeThrowing
    \/ resumeThrowing
    \/ reject

SpecFailing == Init /\ [][NextFailing]_vars

\* Registration and resolution of the keys that are the library's own
\* classes ServiceCollection, ServiceContainer and ServiceHost.
NextSelf ==
    \/ addSingleton(HostSelfKeys)
    \/ addScoped(HostSelfKeys)
    \/ addTransient(HostSelfKeys)
    \/ createScope
    \/ get(HostSelfKeys)

SpecSelf == Init /\ [][NextSelf]_vars

\* Registration, re-registration at any time and resolution of the key A and
\* of the key ServiceCollection.
OverwriteKeys == {"A", "ServiceCollection"}

NextOverwrite ==
    \/ addSingleton(OverwriteKeys)
    \/ addScoped(OverwriteKeys)
    \/ addTransient(OverwriteKeys)
    \/ createScope
    \/ get(OverwriteKeys)

SpecOverwrite == Init /\ [][NextOverwrite]_vars

------------------------------------------------------------------------------
(* Properties of resolution (specification Spec).                           *)
(* In a step that is a get, last' is the call and its outcome and           *)
(* last'.tagged the binding the call looked up; the unprimed variables are  *)
(* the container before the call.                                           *)

Range(seq) == {seq[j] : j \in 1..Len(seq)}

\* The invocations of the factory of binding id recorded in an outcome.
InvocationsOf(outcome, id) ==
    {j \in 1..Len(outcome.inv) : outcome.inv[j].id = id}

\* The keys a context answers with itself.
SelfKeys(ctx) == IF ctx = Host THEN HostSelfKeys ELSE ScopeSelfKeys

\* The store of a singleton binding, once it holds an instance, is never
\* written again: the record stays as it is until a registration puts a new
\* record under the key.
StoreKept ==
    \A k \in Keys :
        (/\ services[k].tag = "singleton" /\ services[k].store # Undefined
         /\ services'[k].id = services[k].id)
            => services'[k] = services[k]

\* C1: for a key bound with addSingleton, a get on the host that returns
\* while the binding's store holds an instance returns that very instance
\* and does not invoke the binding's factory; the get that finds the store
\* empty invokes the factory once and leaves its result in the store, so
\* every later get returns it (a key the host answers with itself resolves
\* to the host at every get, its factory never invoked); and the store, once
\* filled, is never written again.
C1_Step ==
    (last'.op = "get" /\ last'.ctx = Host /\ last'.tagged.tag = "singleton"
        /\ last'.err = "")
    => LET k == last'.key
           id == last'.tagged.id
       IN  IF k \in HostSelfKeys
           THEN last'.v = CtxValue(Host) /\ last'.inv = << >>
           ELSE IF services[k].store # Undefined
                THEN /\ last'.v = services[k].store
                     /\ InvocationsOf(last', id) = {}
                ELSE /\ last'.v # Undefined
                     /\ services'[k].store = last'.v
                     /\ Cardinality(InvocationsOf(last', id)) = 1

C1_SingletonOnHost == [][C1_Step /\ StoreKept]_vars

\* C1's case: a get on the host of a singleton key returned the instance
\* an earlier get had constructed and stored.
C1_Witness ==
    /\ last.op = "get" /\ last.ctx = Host /\ last.err = ""
    /\ last.tagged.tag = "singleton" /\ last.key \notin HostSelfKeys
    /\ last.tagged.store # Undefined
    /\ last.v = last.tagged.store
    /\ last.inv = << >>

\* The first get of a scoped key in a scope constructs with that scope as
\* resolution context and disposal callback and caches the result; a later
\* get of the scope returns the cached instance and invokes nothing; no
\* other scope's cache changes.
ScopedStep(exempt) ==
    (last'.op = "get" /\ last'.ctx \in Scopes /\ last'.tagged.tag = "scoped"
        /\ last'.key \notin exempt /\ last'.err = "")
    => LET s == last'.ctx
           id == last'.tagged.id
       IN  /\ IF scoped[s][id] # Undefined
              THEN /\ last'.v = scoped[s][id]
                   /\ scoped'[s][id] = scoped[s][id]
                   /\ InvocationsOf(last', id) = {}
              ELSE /\ last'.v # Undefined
                   /\ scoped'[s][id] = last'.v
                   /\ InvocationsOf(last', id) = {1}
                   /\ last'.inv[1] = [id |-> id, collection |-> s, cb |-> s]
           /\ \A t \in Scopes \ {s} : scoped'[t][id] = scoped[t][id]

\* Two scopes hold distinct instances of the scoped bindings of the given
\* shapes.
ScopesDistinct(shapes) ==
    \A k \in Keys :
        (services[k].tag = "scoped" /\ services[k].service.shape \in shapes)
        => \A s, t \in Scopes :
               (s # t /\ scoped[s][services[k].id] # Undefined
                      /\ scoped[t][services[k].id] # Undefined)
               => scoped[s][services[k].id] # scoped[t][services[k].id]

\* C2 (as amended): for a scoped binding whose key is not the
\* ServiceCollection identity, within one scope every get that returns
\* yields the identical instance, the factory being invoked once, by the
\* first, with that scope as resolution context; two scopes of the host hold
\* distinct instances when the binding constructs an object at each
\* invocation (a class, a factory function, an argument list).
C2_ScopedPerScope ==
    [][ScopedStep(ScopeSelfKeys) /\ ScopesDistinct({"class", "fn", "args"})']_vars

\* C2 as stated: every scoped key, and two scopes never share an instance.
C2_Original ==
    [][ScopedStep({}) /\ ScopesDistinct({"class", "fn", "args", "value"})']_vars

\* C2's case: two scopes have each resolved the same scoped key, to
\* different instances, and the last get returned its scope's cached one.
C2_Witness ==
    /\ last.op = "get" /\ last.ctx \in Scopes /\ last.tagged.tag = "scoped"
    /\ last.key \notin ScopeSelfKeys /\ last.err = "" /\ last.inv = << >>
    /\ \E s, t \in Scopes :
          /\ s # t
          /\ scoped[s][last.tagged.id] = last.v
          /\ scoped[t][last.tagged.id] \notin {Undefined, last.v}

\* Every get of a transient key invokes the binding's factory, with the host
\* as resolution context and disposal callback; when it returns, the result
\* is an object that did not exist before the call, or the value the client
\* bound; nothing is cached for the binding.
TransientStep(exempt) ==
    (last'.op = "get" /\ last'.tagged.tag = "transient"
        /\ ~(exempt /\ last'.key \in SelfKeys(last'.ctx)))
    => LET k == last'.key
           id == last'.tagged.id
       IN  /\ InvocationsOf(last', id) # {}
           /\ last'.inv[1] = [id |-> id, collection |-> Host, cb |-> Host]
           /\ services'[k] = services[k]
           /\ \A s \in Scopes : scoped'[s][id] = Undefined
           /\ last'.err = "" =>
                 IF last'.tagged.service.shape = "value"
                 THEN last'.v = last'.tagged.service.val
                 ELSE last'.v > Len(heap)

\* C3 (as amended): for every key bound with addTransient that the context
\* does not answer with itself, every get of the key, on the host or through
\* a scope, invokes the binding's factory and returns its result, a new
\* object when the factory constructs one, and caches nothing.
C3_TransientFresh == [][TransientStep(TRUE)]_vars

\* C3 as stated: every key bound with addTransient.
C3_Original == [][TransientStep(FALSE)]_vars

\* C3's case: a get through a scope of a transient key returned an object
\* while an earlier result of the same binding exists.
C3_Witness ==
    /\ last.op = "get" /\ last.ctx \in Scopes /\ last.tagged.tag = "transient"
    /\ last.key = "A" /\ last.tagged.service.shape = "class"
    /\ last.err = "" /\ last.v > 1
    /\ heap[last.v - 1].cls = "A"

\* A get of a scoped key on the host throws the scope-misuse error, invokes
\* no factory and changes neither a cache nor a registry nor the heap.
ScopedOnHostStep(exempt) ==
    (last'.op = "get" /\ last'.ctx = Host /\ last'.tagged.tag = "scoped"
        /\ last'.key \notin exempt)
    => /\ last'.err = ScopeMisuse
       /\ last'.inv = << >>
       /\ UNCHANGED <<services, scoped, dispose, heap>>

\* C4 (as amended): get on the host for a key bound with addScoped, other
\* than the keys the host answers with itself, always raises "Cannot create
\* service outside of scope"; the factory is not invoked, nothing is cached
\* or registered for disposal.
C4_ScopedOnHostThrows == [][ScopedOnHostStep(HostSelfKeys)]_vars

\* C4 as stated: every key bound with addScoped.
C4_Original == [][ScopedOnHostStep({})]_vars

\* C4's case: the host was asked for a scoped key that scopes have resolved,
\* and threw.
C4_Witness ==
    /\ last.op = "get" /\ last.ctx = Host /\ last.tagged.tag = "scoped"
    /\ last.key \notin HostSelfKeys
    /\ last.err = ScopeMisuse
    /\ \E s \in Scopes : scoped[s][last.tagged.id] # Undefined

\* C5: get for a key that was never registered, and that is not a
\* self-resolution identity, returns undefined and does not throw, on the
\* host and through a scope, and changes no cache, registry or object.
C5_Step ==
    (last'.op = "get" /\ last'.tagged = NoTag /\ last'.key \notin HostSelfKeys)
    => /\ last'.v = Undefined
       /\ last'.err = ""
       /\ last'.inv = << >>
       /\ UNCHANGED <<services, scoped, dispose, heap>>

C5_UnregisteredNotFound == [][C5_Step]_vars

\* C5's case: a scope was asked for an unregistered key while another key is
\* registered and resolved, and returned undefined.
C5_Witness ==
    /\ last.op = "get" /\ last.ctx \in Scopes /\ last.tagged = NoTag
    /\ last.key = "B" /\ last.v = Undefined /\ last.err = ""
    /\ services["A"].store # Undefined

\* A get of a singleton key through any context returns the instance of the
\* host's store; the one get that finds the store empty invokes the factory
\* once, with the host as resolution context and disposal callback, and
\* fills the store; no scope caches anything for the binding.
SingletonAnywhereStep(exempt) ==
    (last'.op = "get" /\ last'.tagged.tag = "singleton"
        /\ last'.key \notin exempt /\ last'.err = "")
    => LET k == last'.key
           id == last'.tagged.id
       IN  /\ IF services[k].store # Undefined
              THEN /\ last'.v = services[k].store
                   /\ InvocationsOf(last', id) = {}
              ELSE /\ last'.v # Undefined
                   /\ services'[k].store = last'.v
                   /\ InvocationsOf(last', id) = {1}
                   /\ last'.inv[1] = [id |-> id, collection |-> Host, cb |-> Host]
           /\ \A s \in Scopes : scoped'[s][id] = Undefined

\* C6 (as amended): a singleton key registered on the host, other than the
\* self-resolution identities, resolves through any scope and on the host to
\* the same instance, whichever is called first and however many scopes are
\* involved, and the factory of a binding runs at most once in total.
C6_SingletonThroughScopes == [][SingletonAnywhereStep(HostSelfKeys) /\ StoreKept]_vars

\* C6 as stated: every singleton key registered on the host.
C6_Original == [][SingletonAnywhereStep({}) /\ StoreKept]_vars

\* C6's case: a scope returned, without constructing, the singleton that a
\* get made elsewhere had stored, two scopes existing.
C6_Witness ==
    /\ last.op = "get" /\ last.ctx \in Scopes /\ last.tagged.tag = "singleton"
    /\ last.key \notin HostSelfKeys /\ last.err = ""
    /\ last.tagged.store # Undefined /\ last.v = last.tagged.store
    /\ last.inv = << >>
    /\ nScopes >= 2

------------------------------------------------------------------------------
(* Properties of teardown (specification SpecTeardown).                     *)

\* The teardown calls whose release calls the state records: those awaiting
\* a release, and the one that has just ended.
Teardowns ==
    Range(tasks) \cup (IF last.op = "disposed" THEN {last.task} ELSE {})

IsCall(e) == e.ev \in {"asyncStart", "sync"}

\* In the release calls rel of a teardown of old, the release of position q
\* was complete before the j-th entry: its asynchronous release, if it has
\* one, had been called and had completed, and its synchronous release, if
\* it has one, had been called.
CompleteBefore(old, rel, q, j) ==
    /\ "async" \in CapsOf(heap, old[q]) =>
          \E a, b \in 1..(j - 1) :
              /\ a < b
              /\ rel[a] = Event(q, old[q], "asyncStart")
              /\ rel[b] = Event(q, old[q], "asyncEnd")
    /\ "sync" \in CapsOf(heap, old[q]) =>
          \E a \in 1..(j - 1) : rel[a] = Event(q, old[q], "sync")

\* Every entry is a release of the resource registered at its position, and
\* a release call on a position comes after the release of every earlier
\* position is complete, and, for the synchronous call of a resource with
\* both capabilities, after its own asynchronous release has completed.
InRegistrationOrder(task) ==
    \A j \in 1..Len(task.rel) :
        LET e == task.rel[j]
        IN  /\ e.pos \in 1..Len(task.old)
            /\ e.obj = task.old[e.pos]
            /\ IsCall(e) =>
                  \A q \in 1..(e.pos - 1) : CompleteBefore(task.old, task.rel, q, j)
            /\ (e.ev = "sync" /\ "async" \in CapsOf(heap, e.obj)) =>
                  \E b \in 1..(j - 1) : task.rel[b] = Event(e.pos, e.obj, "asyncEnd")

\* C7: a teardown releases the resources of the registry in registration
\* order, one at a time: no release call is made on a resource before the
\* release of every resource registered earlier has completed, and when the
\* teardown ends every resource of the list has been released.
C7_ReleasesInRegistrationOrder ==
    /\ \A task \in Teardowns : InRegistrationOrder(task)
    /\ last.op = "disposed" =>
          \A q \in 1..Len(last.task.old) :
              CompleteBefore(last.task.old, last.task.rel, q,
                             Len(last.task.rel) + 1)

\* C7's case: a teardown of three resources, one of them released
\* asynchronously, has ended.
C7_Witness ==
    /\ last.op = "disposed"
    /\ Len(last.task.old) >= 3
    /\ \E j \in 1..Len(last.task.rel) : last.task.rel[j].ev = "asyncEnd"

\* C8: a teardown called after an earlier teardown of the same context has
\* begun, nothing having been registered on the context in between, releases
\* nothing, whether the earlier one is still awaiting a release or has ended.
C8_TeardownIdempotent ==
    \A task \in Teardowns : task.idle => task.rel = << >> /\ task.old = << >>

\* C8's case: a second teardown of a context has ended, having released
\* nothing, while the first one is still awaiting a release.
C8_Witness ==
    /\ last.op = "disposed" /\ last.task.idle /\ last.task.rel = << >>
    /\ \E t \in 1..Len(tasks) :
          tasks[t].ctx = last.ctx /\ tasks[t].old # << >> /\ ~tasks[t].idle

\* C9: when a teardown has ended, each resource of the registry has received
\* exactly one release call.
C9_ReleasedExactlyOnce ==
    last.op = "disposed" =>
        \A q \in 1..Len(last.task.old) :
            Cardinality({j \in 1..Len(last.task.rel) :
                            /\ IsCall(last.task.rel[j])
                            /\ last.task.rel[j].obj = last.task.old[q]}) = 1

\* C10: a teardown of a scope makes release calls only on resources that no
\* other context's registry holds.
C10_ScopeReleasesOnlyItsOwn ==
    \A task \in Teardowns :
        task.ctx \in Scopes =>
            \A j \in 1..Len(task.rel) :
                IsCall(task.rel[j]) =>
                    \A c \in Contexts \ {task.ctx} :
                        task.rel[j].obj \notin Range(dispose[c])

------------------------------------------------------------------------------
(* Properties of delegation, self-resolution and overwriting.               *)

\* A get through a scope of a key bound singleton or transient: every
\* factory it invokes receives the host as resolution context and the host's
\* registration callback, the scoped caches and the scopes' registries are
\* left as they were, and a disposable instance it constructs is the last of
\* the entries the call appends to the host's registry.
DelegatedStep ==
    (/\ last'.op = "get" /\ last'.ctx \in Scopes
     /\ last'.tagged.tag \in {"singleton", "transient"})
    => /\ \A j \in 1..Len(last'.inv) :
              last'.inv[j].collection = Host /\ last'.inv[j].cb = Host
       /\ scoped' = scoped
       /\ \A s \in Scopes : dispose'[s] = dispose[s] /\ fresh'[s] = fresh[s]
       /\ (/\ last'.err = "" /\ last'.inv # << >>
           /\ CapsOf(heap', last'.v) # {})
          => /\ Len(dispose'[Host]) > Len(dispose[Host])
             /\ SubSeq(dispose'[Host], 1, Len(dispose[Host])) = dispose[Host]
             /\ dispose'[Host][Len(dispose'[Host])] = last'.v

\* The instance a scope has obtained for a singleton or transient key is in
\* no scope's registry and in the list of no teardown of a scope: no
\* teardown of a scope releases it.
ScopesOwnNothing ==
    (/\ last.op = "get" /\ last.ctx \in Scopes /\ last.err = ""
     /\ last.tagged.tag \in {"singleton", "transient"})
    => /\ \A s \in Scopes : last.v \notin Range(dispose[s])
       /\ \A task \in Teardowns :
              task.ctx \in Scopes => last.v \notin Range(task.old)

\* C11: resolving a singleton or transient key through a scope is delegated
\* to the parent: the factory gets the parent as context and the parent's
\* registration callback, the scope's cache and registry do not change, and
\* the instance is in the parent's registry, to be released by the parent's
\* teardown and not by the scope's.
C11_DelegatedToParent == [][DelegatedStep /\ ScopesOwnNothing']_vars

\* C11's case: after a teardown of a scope, a get through that scope of a
\* singleton or transient key has constructed a disposable instance, which
\* the host's registry holds.
C11_Witness ==
    /\ last.op = "get" /\ last.ctx \in Scopes /\ last.err = ""
    /\ last.tagged.tag \in {"singleton", "transient"}
    /\ last.inv # << >>
    /\ fresh[last.ctx]
    /\ last.v \in Range(dispose[Host])

\* A get of a key the context answers with itself returns the context,
\* throws nothing, invokes no factory and changes nothing of the container.
SelfStep ==
    (last'.op = "get" /\ last'.key \in SelfKeys(last'.ctx))
    => /\ last'.v = CtxValue(last'.ctx)
       /\ last'.err = ""
       /\ last'.inv = << >>
       /\ UNCHANGED <<services, scoped, dispose, fresh, heap>>

\* C12: self-resolution ignores the binding table: host.get of the
\* ServiceCollection, ServiceContainer or ServiceHost identity returns the
\* host, scope.get of the ServiceCollection identity returns that scope,
\* whether or not a binding is registered under the key, and no factory is
\* invoked.
C12_SelfResolution == [][SelfStep]_vars

\* C12's case: with a binding registered under ServiceCollection and under
\* another of the identities, a scope has answered a get of
\* ServiceCollection with itself.
C12_Witness ==
    /\ services["ServiceCollection"] # NoTag
    /\ \E k \in HostSelfKeys \ {"ServiceCollection"} : services[k] # NoTag
    /\ last.op = "get" /\ last.ctx \in Scopes /\ last.key = "ServiceCollection"
    /\ last.v = CtxValue(last.ctx)

\* A registration step puts a new record under its key, with an empty store
\* and no scope caching anything for it, whatever was bound and cached under
\* the key before; it raises nothing and leaves the other records, the
\* caches and the registries as they were.
OverwriteStep ==
    nTags' = nTags + 1
    => \E key \in AllKeys :
          /\ services'[key].id = nTags'
          /\ services'[key].store = Undefined
          /\ \A k \in AllKeys \ {key} : services'[k] = services[k]
          /\ \A s \in Scopes : scoped'[s][nTags'] = Undefined
          /\ last'.err = ""
          /\ UNCHANGED <<scoped, dispose>>

\* The value a get returned is what the recipe of the record it looked up
\* makes: the bound value itself, or an object of the recipe's class.
RecipeMatch(outcome, h) ==
    IF outcome.tagged.service.shape = "value"
    THEN outcome.v = outcome.tagged.service.val
    ELSE outcome.v > 0 /\ h[outcome.v].cls = outcome.tagged.service.cls

\* A get of a bound key looks up the record of the last registration of the
\* key, invokes no factory but that record's, and what it returns is made by
\* that record's recipe.
LastRegistrationStep(exempt) ==
    (/\ last'.op = "get" /\ last'.tagged # NoTag
     /\ ~(exempt /\ last'.key \in SelfKeys(last'.ctx)))
    => /\ last'.tagged = services[last'.key]
       /\ \A k \in AllKeys \ {last'.key} : last'.tagged.id # services[k].id
       /\ \A j \in 1..Len(last'.inv) : last'.inv[j].id = last'.tagged.id
       /\ last'.err = "" => RecipeMatch(last', heap')

\* C13 (as amended): after any sequence of add* calls for a key, a
\* registration raises nothing and replaces the key's record, and get of a
\* key the context does not answer with itself resolves it with the
\* lifetime and the recipe of the last registration only, also when an
\* earlier binding of the key was resolved and cached: singleton, scoped and
\* transient lifetimes behave as for a key registered once.
C13_LastRegistrationWins ==
    [][/\ OverwriteStep
       /\ LastRegistrationStep(TRUE)
       /\ SingletonAnywhereStep(HostSelfKeys)
       /\ ScopedStep(ScopeSelfKeys)
       /\ ScopedOnHostStep(HostSelfKeys)
       /\ TransientStep(TRUE)]_vars

\* C13 as stated: every key, the self-resolution identities included.
C13_Original ==
    [][OverwriteStep /\ LastRegistrationStep(FALSE)]_vars

\* C13's case: the key A was bound as a singleton of class A, resolved and
\* stored, then bound anew with another recipe, and a get has constructed
\* an instance by the new recipe while the old instance exists.
C13_Witness ==
    /\ last.op = "get" /\ last.key = "A" /\ last.err = ""
    /\ last.tagged.id > 1
    /\ last.tagged.service.cls = "P"
    /\ last.inv # << >>
    /\ heap[last.v].cls = "P"
    /\ \E o \in 1..Len(heap) : heap[o].cls = "A"

------------------------------------------------------------------------------
(* Properties of a teardown whose releases may fail (SpecFailing).          *)

IsFailure(e) == e.ev \in {"syncThrow", "asyncReject"}

\* The release calls of a teardown that has not failed hold no failed
\* release: a release that fails ends the teardown.
NoFailureSwallowed ==
    /\ \A t \in 1..Len(tasks) :
          \A j \in 1..Len(tasks[t].rel) : ~IsFailure(tasks[t].rel[j])
    /\ last.op = "disposed" =>
          \A j \in 1..Len(last.task.rel) : ~IsFailure(last.task.rel[j])

\* A teardown that has failed: its caller gets the error; the failed release
\* is the last thing the teardown did and the only failed one; no entry of
\* the list after the failing one has received a release call.
FailedFast ==
    last.op = "disposeFailed" =>
        LET task == last.task
            n == Len(task.rel)
        IN  /\ last.err = ReleaseError
            /\ n > 0
            /\ IsFailure(task.rel[n])
            /\ task.rel[n].pos = task.i
            /\ task.rel[n].obj = task.old[task.i]
            /\ \A j \in 1..(n - 1) : ~IsFailure(task.rel[j])
            /\ \A j \in 1..n : task.rel[j].pos <= task.i

\* The step in which a teardown fails puts nothing back in a registry.
FailStep ==
    (last'.op = "disposeFailed")
    => \A c \in Contexts : dispose'[c] = dispose[c] \/ dispose'[c] = << >>

\* C14: teardown is fail-fast: when the release of a resource fails, the
\* error propagates to the caller of the teardown, no entry registered
\* after the failing one is released in that teardown, and the failed
\* release is not tried again.
C14_FailFast == [][FailStep /\ FailedFast' /\ NoFailureSwallowed']_vars

\* C14's case: a teardown has failed at an entry that is neither the first
\* nor the last of its list.
C14_Witness ==
    /\ last.op = "disposeFailed"
    /\ 1 < last.task.i /\ last.task.i < Len(last.task.old)
    /\ \E j \in 1..Len(last.task.rel) : last.task.rel[j].pos = 1

------------------------------------------------------------------------------
(* Properties of the synthesized factories (specifications SpecCallable and *)
(* SpecInject).                                                             *)

\* The positions in calls of the calls of the callable of binding id.
CallsOf(calls, id) == {j \in 1..Len(calls) : calls[j].id = id}

\* j is the call of the callable of its binding that follows call i.
NextCallOf(calls, i, j) ==
    /\ i < j /\ calls[i].id = calls[j].id
    /\ \A m \in (i + 1)..(j - 1) : calls[m].id # calls[i].id

\* The calls a get makes of the callables: each factory invocation begins
\* with the injection path; the plain call is made exactly after an
\* injection attempt that threw; and, for the binding the get resolves, what
\* the last call of its callable returned is what the get returns, or the
\* error it threw is thrown.
CallableStep(shapes) ==
    (last'.op = "get")
    => LET c == last'.calls
           id == last'.tagged.id
       IN  /\ \A k \in AllKeys :
                 services[k].service.shape \in {"class", "fn"} =>
                     Cardinality({j \in CallsOf(c, services[k].id) :
                                     c[j].path = "inject"})
                         = Cardinality(InvocationsOf(last', services[k].id))
           /\ \A j \in 1..Len(c) :
                 c[j].path = "plain" =>
                     \E i \in 1..Len(c) : /\ NextCallOf(c, i, j)
                                          /\ c[i].path = "inject" /\ ~c[i].ok
           /\ \A i \in 1..Len(c) :
                 (c[i].path = "inject" /\ ~c[i].ok) =>
                     \E j \in 1..Len(c) : NextCallOf(c, i, j) /\ c[j].path = "plain"
           /\ (CallsOf(c, id) # {} /\ last'.tagged.service \in shapes) =>
                 LET e == c[CHOOSE j \in CallsOf(c, id) :
                               \A m \in CallsOf(c, id) : m <= j]
                 IN  IF e.ok THEN last'.err = "" /\ last'.v = e.v
                             ELSE last'.err # ""

\* The callables of the client: the classes and the arrow functions.
Callables ==
    {sh \in UNION {ServiceShapes(k) : k \in AllKeys} :
        sh.shape \in {"class", "fn"}}

\* The services bound to a callable, as addService records them.
CallableServices(shs) ==
    {[shape |-> sh.shape, cls |-> sh.cls, val |-> Undefined] : sh \in shs}

\* C15: for a callable binding the factory first attempts construction by
\* the injection path; if and only if the attempt throws, the callable is
\* invoked as a plain function with the resolution context, and its result
\* is returned; after a successful first attempt the callable is not
\* invoked again.
C15_TwoPathCallable == [][CallableStep(CallableServices(Callables))]_vars

\* ctx.inject(C) that returns has built a new object of class C whose
\* properties are, in the order declared, a: what ctx.get(A) gives on that
\* context (nothing for an unbound key, the host's singleton, the scope's
\* cached instance, a new transient), and c: the context itself; a factory
\* it invokes gets the context of its lifetime. On the host, a scoped
\* dependency makes inject throw the scope-misuse error.
InjectStep ==
    (last'.op = "inject")
    => LET ctx == last'.ctx
           t == services["A"]
           o == last'.v
       IN  /\ last'.err = "" =>
                 /\ o = Len(heap) + 1
                 /\ heap'[o].cls = last'.key
                 /\ Len(heap'[o].props) = 2
                 /\ heap'[o].props[1][1] = "a"
                 /\ heap'[o].props[2] = <<"c", CtxValue(ctx)>>
                 /\ LET a == heap'[o].props[1][2]
                    IN  CASE t = NoTag -> a = Undefined /\ last'.inv = << >>
                          [] t.tag = "singleton" ->
                               /\ a # Undefined
                               /\ a = services'["A"].store
                               /\ t.store # Undefined =>
                                     a = t.store /\ last'.inv = << >>
                          [] t.tag = "scoped" ->
                               /\ ctx \in Scopes
                               /\ a # Undefined
                               /\ a = scoped'[ctx][t.id]
                               /\ scoped[ctx][t.id] # Undefined =>
                                     a = scoped[ctx][t.id] /\ last'.inv = << >>
                          [] OTHER ->
                               /\ last'.inv # << >>
                               /\ IF t.service.shape = "value"
                                  THEN a = t.service.val
                                  ELSE a > o
           /\ \A j \in 1..Len(last'.inv) :
                 last'.inv[j] = [id |-> t.id,
                                 collection |-> IF t.tag = "scoped" THEN ctx ELSE Host,
                                 cb |-> IF t.tag = "scoped" THEN ctx ELSE Host]
           /\ (ctx = Host /\ t.tag = "scoped") => last'.err = ScopeMisuse

\* C16: an instance built by ctx.inject(C) has, for every (property,
\* dependency key) pair declared for C and in declaration order, the
\* property set to the result of ctx.get(dependency key) on that same
\* context: inject on a scope gives a scoped dependency that scope's cached
\* instance and a singleton dependency the host's singleton.
C16_InjectOnSameContext == [][InjectStep]_vars

\* C16's case: inject called on a scope has given the new object the
\* instance of the scoped dependency that the scope had already cached.
C16_Witness ==
    /\ last.op = "inject" /\ last.ctx \in Scopes /\ last.err = ""
    /\ services["A"].tag = "scoped"
    /\ last.inv = << >>
    /\ heap[last.v].props = << <<"a", scoped[last.ctx][services["A"].id]>>,
                               <<"c", CtxValue(last.ctx)>> >>

\* The service of a binding to the arrow function ctx => undefined.
ReturnsUndefined == [shape |-> "fn", cls |-> "", val |-> Undefined]

\* A get of a singleton key, or in a scope of a scoped key, bound to a
\* function that returns undefined: the factory is invoked, by this get as
\* by every other, also when the call before it was a get of the same
\* binding, and calls the function, which returns its falsy result; no
\* instance is found in the store or in a scope's cache afterwards.
FalsyStep ==
    (/\ last'.op = "get" /\ last'.key \notin SelfKeys(last'.ctx)
     /\ last'.tagged.service = ReturnsUndefined
     /\ \/ last'.tagged.tag = "singleton"
        \/ last'.tagged.tag = "scoped" /\ last'.ctx \in Scopes)
    => /\ Cardinality(InvocationsOf(last', last'.tagged.id)) = 1
       /\ \E j \in CallsOf(last'.calls, last'.tagged.id) :
             last'.calls[j] = [id |-> last'.tagged.id, path |-> "plain",
                               v |-> Undefined, ok |-> TRUE]
       /\ services'[last'.key].store = Undefined
       /\ \A s \in Scopes : scoped'[s][last'.tagged.id] = Undefined

\* C17: a singleton binding, or within a scope a scoped binding, whose
\* factory returns a falsy result is never treated as already computed:
\* every get of the key, a get that follows another included, invokes the
\* factory again, once per resolution, and nothing is stored or cached.
C17_FalsyNeverCached == [][FalsyStep]_vars

\* C17's case: a get of a singleton key bound to a function that returns
\* undefined has followed a get of the same binding and has invoked the
\* factory, which has called the function, once more.
C17_Witness ==
    /\ last.op = "get" /\ last.again
    /\ last.tagged.tag = "singleton"
    /\ last.tagged.service = ReturnsUndefined
    /\ Cardinality(InvocationsOf(last, last.tagged.id)) = 1
    /\ \E j \in CallsOf(last.calls, last.tagged.id) :
          last.calls[j].path = "plain" /\ last.calls[j].ok
    /\ services[last.key].store = Undefined

------------------------------------------------------------------------------
(* Properties of teardown and the caches (specification SpecTeardown).      *)

\* A step of a teardown, its call or the completion of a release it awaits,
\* leaves the binding table with its singleton stores, the scoped caches and
\* the objects as they were.
TeardownFrameStep ==
    (nTasks' # nTasks \/ tasks' # tasks)
    => UNCHANGED <<services, scoped, heap>>

\* A get of a singleton key whose store is filled, or in a scope of a scoped
\* key the scope has cached, returns that instance, invokes no factory,
\* constructs nothing and registers nothing, whether or not a teardown has
\* released the instance.
CachedGetStep ==
    (/\ last'.op = "get" /\ last'.key \notin SelfKeys(last'.ctx)
     /\ \/ last'.tagged.tag = "singleton" /\ services[last'.key].store # Undefined
        \/ /\ last'.tagged.tag = "scoped" /\ last'.ctx \in Scopes
           /\ scoped[last'.ctx][last'.tagged.id] # Undefined)
    => /\ last'.err = ""
       /\ last'.v = IF last'.tagged.tag = "singleton"
                    THEN services[last'.key].store
                    ELSE scoped[last'.ctx][last'.tagged.id]
       /\ last'.inv = << >>
       /\ UNCHANGED <<services, scoped, dispose, fresh, heap>>

\* C18: teardown touches no cache: the singleton stores and the scoped
\* caches are as they were after a teardown of the host or of a scope, so a
\* later get of an already resolved singleton or scoped key returns the same
\* instance, constructs and registers nothing, and a further teardown of
\* the context releases nothing.
C18_TeardownKeepsCaches ==
    [][TeardownFrameStep /\ CachedGetStep /\ C8_TeardownIdempotent']_vars

\* C18's case: after a teardown of its context has ended and released the
\* instance, a get has returned the instance from the store or the scope's
\* cache, the registry staying empty.
C18_Witness ==
    /\ last.op = "get" /\ last.err = "" /\ last.inv = << >>
    /\ last.key \notin SelfKeys(last.ctx)
    /\ last.tagged.tag \in {"singleton", "scoped"}
    /\ last.v > 0 /\ CapsOf(heap, last.v) # {}
    /\ LET c == IF last.tagged.tag = "singleton" THEN Host ELSE last.ctx
       IN  fresh[c] /\ dispose[c] = << >>
    /\ tasks = << >> /\ nTasks > 0

------------------------------------------------------------------------------
(* Registrations made while a teardown is in progress (SpecTeardown).       *)

\* seq is the beginning of longer.
IsPrefix(seq, longer) ==
    Len(seq) <= Len(longer) /\ SubSeq(longer, 1, Len(seq)) = seq

\* after is task t one step later: the task where it was, awaiting again, or
\* the task that has just ended and left tasks.
Continues(t, after) ==
    /\ nTasks' = nTasks
    /\ after.ctx = tasks[t].ctx /\ after.old = tasks[t].old
    /\ IsPrefix(tasks[t].rel, after.rel) /\ after.rel # tasks[t].rel
    /\ \/ Len(tasks') = Len(tasks) /\ tasks'[t] = after
       \/ tasks' = RemoveAt(tasks, t) /\ last'.op = "disposed" /\ last'.task = after

\* The teardown calls as they are after the step.
TeardownsAfter ==
    Range(tasks') \cup (IF last'.op = "disposed" THEN {last'.task} ELSE {})

\* The list of a teardown in progress is the one it swapped out: the entries
\* it releases are entries of that list, whatever is registered meanwhile.
ReleasesItsListStep ==
    \A t \in 1..Len(tasks) : \A after \in TeardownsAfter :
        Continues(t, after) =>
            \A j \in (Len(tasks[t].rel) + 1)..Len(after.rel) :
                /\ after.rel[j].pos \in 1..Len(after.old)
                /\ after.rel[j].obj = after.old[after.rel[j].pos]

\* A teardown in progress makes no release call on a resource that the
\* registry of its context holds, that is, on a resource registered on the
\* context since the list was swapped.
SparesLaterRegistrationsStep ==
    \A t \in 1..Len(tasks) : \A after \in TeardownsAfter :
        Continues(t, after) =>
            \A j \in (Len(tasks[t].rel) + 1)..Len(after.rel) :
                IsCall(after.rel[j]) =>
                    after.rel[j].obj \notin Range(dispose[after.ctx])

\* Nothing leaves a registry but by a teardown call, which takes the whole
\* list, the entries registered during an earlier teardown included; a get
\* only appends, also while a teardown of the context awaits.
NothingDroppedStep ==
    \A c \in Contexts :
        \/ IsPrefix(dispose[c], dispose'[c])
        \/ /\ dispose'[c] = << >>
           /\ nTasks' = nTasks + 1
           /\ \E task \in TeardownsAfter : task.ctx = c /\ task.old = dispose[c]

\* When a teardown has ended every entry of its list has been released.
AllReleasedAtEnd ==
    last.op = "disposed" =>
        \A q \in 1..Len(last.task.old) :
            CompleteBefore(last.task.old, last.task.rel, q, Len(last.task.rel) + 1)

\* C19: a resource registered on a context while a teardown of that context
\* is in progress is not released by that teardown; it stays in the registry
\* and the next teardown of the context takes and releases it, so that no
\* registered resource is dropped without a release.
C19_RegisteredDuringTeardown ==
    [][SparesLaterRegistrationsStep /\ NothingDroppedStep /\ AllReleasedAtEnd']_vars

\* What the code guarantees: the same of the entries of the registry, a
\* teardown in progress releasing the entries of the list it swapped out.
RegistryEntriesStep ==
    ReleasesItsListStep /\ NothingDroppedStep /\ AllReleasedAtEnd'

------------------------------------------------------------------------------
(* Scoped dependencies of singleton and transient bindings (Spec).          *)

\* The dependency keys the class of a binding declares that are bound scoped.
ScopedDependencies(tagged) ==
    LET metadata == getInjectionMetadata(tagged.service.cls)
    IN  {metadata[j][2] : j \in 1..Len(metadata)}
            \cap {k \in AllKeys : services[k].tag = "scoped"}

\* The instances the scopes have cached, after the step.
ScopedInstances ==
    {scoped'[s][id] : s \in Scopes, id \in 1..MaxAdds} \ {Undefined}

\* The step is a get through a scope of a singleton or transient key bound
\* to a class, or to the constructor arguments of one, that declares a
\* dependency bound scoped, and the binding is to be constructed: it is no
\* singleton whose store holds an instance.
ResolvesScopedDependency ==
    /\ last'.op = "get" /\ last'.ctx \in Scopes
    /\ last'.key \notin SelfKeys(last'.ctx)
    /\ last'.tagged.tag \in {"singleton", "transient"}
    /\ last'.tagged.service.shape \in {"class", "args"}
    /\ ScopedDependencies(last'.tagged) # {}
    /\ ~(last'.tagged.tag = "singleton" /\ last'.tagged.store # Undefined)

\* The gets that inject made, in the step, for the dependency keys in K.
DependencyGets(K) == {j \in 1..Len(last'.deps) : last'.deps[j].key \in K}

\* In such a get a dependency bound scoped is asked of the host, which
\* throws the scope-misuse error, and the scoped caches are left as they
\* were.
ScopeMisuseRaisedStep ==
    ResolvesScopedDependency
    => /\ \E j \in DependencyGets(ScopedDependencies(last'.tagged)) :
             /\ last'.deps[j].collection = Host
             /\ last'.deps[j].err = ScopeMisuse
       /\ scoped' = scoped

\* In such a get the binding's factory is invoked with the host as context,
\* and every dependency is asked of the host. A dependency bound scoped
\* under a key the host answers with itself resolves to the host with no
\* error. For a dependency bound scoped under any other key the host throws
\* the scope-misuse error: then the binding's factory is the one factory
\* invoked, the get throws (that error for an array of constructor
\* arguments; for a class the error of the plain call made after the failed
\* injection attempt), and nothing is stored, cached or registered. In
\* either case the object under construction has received no instance of a
\* scope's cache.
ScopedDependencyStep ==
    ResolvesScopedDependency
    => LET scopedKeys == ScopedDependencies(last'.tagged)
       IN
       /\ last'.inv # << >>
       /\ last'.inv[1] = [id |-> last'.tagged.id, collection |-> Host,
                          cb |-> Host]
       /\ \A j \in 1..Len(last'.deps) : last'.deps[j].collection = Host
       /\ \A j \in DependencyGets(scopedKeys) :
             IF last'.deps[j].key \in HostSelfKeys
             THEN last'.deps[j].err = "" /\ last'.deps[j].v = CtxValue(Host)
             ELSE last'.deps[j].err = ScopeMisuse
       /\ (scopedKeys \ HostSelfKeys # {}) =>
             /\ DependencyGets(scopedKeys \ HostSelfKeys) # {}
             /\ Len(last'.inv) = 1
             /\ last'.err # ""
             /\ IF last'.tagged.service.shape = "args"
                THEN last'.err = ScopeMisuse /\ last'.calls = << >>
                ELSE last'.calls =
                         << [id |-> last'.tagged.id, path |-> "inject",
                             v |-> Undefined, ok |-> FALSE],
                            [id |-> last'.tagged.id, path |-> "plain",
                             v |-> Undefined, ok |-> FALSE] >>
             /\ UNCHANGED <<services, scoped, dispose, fresh>>
       /\ scoped' = scoped
       /\ \A o \in (Len(heap) + 1)..Len(heap') :
             \A j \in 1..Len(heap'[o].props) :
                 heap'[o].props[j][2] \notin ScopedInstances

\* No object built in a get of a singleton or transient key, on the host or
\* through a scope, holds in an injected property an instance of a scope's
\* cache, and such a get reads and writes no scoped cache: every factory it
\* invokes has the host as context.
NoScopedInstanceCaptured ==
    (/\ last'.op = "get" /\ last'.key \notin SelfKeys(last'.ctx)
     /\ last'.tagged.tag \in {"singleton", "transient"})
    => /\ scoped' = scoped
       /\ \A j \in 1..Len(last'.inv) : last'.inv[j].collection = Host
       /\ \A o \in (Len(heap) + 1)..Len(heap') :
             \A j \in 1..Len(heap'[o].props) :
                 heap'[o].props[j][2] \notin ScopedInstances

\* C20 (as amended): a singleton or transient binding never captures a
\* scope's scoped instance: resolved through a scope, its dependencies are
\* resolved on the parent, not on the calling scope, so that the scope's
\* cache is neither read nor populated; for a dependency bound scoped the
\* parent raises the scope-misuse error and the get fails, unless the key
\* is one the host answers with itself, which resolves to the host; the
\* caller gets the scope-misuse error from a binding to an array of
\* constructor arguments, and from a binding to the class the error of the
\* plain call the factory falls back to.
C20_NoScopedCapture ==
    [][ScopedDependencyStep /\ NoScopedInstanceCaptured]_vars

\* C20 as stated: the dependency bound scoped is resolved on the parent,
\* which raises the scope-misuse error, whatever the key of the dependency,
\* and the scope's cache is neither read nor populated.
C20_Original ==
    [][ScopeMisuseRaisedStep /\ NoScopedInstanceCaptured]_vars

\* C20's case: a scope that has cached an instance of the scoped key A has
\* resolved the key B, bound singleton or transient to the array of
\* constructor arguments of a class that injects A, and the get has thrown
\* the scope-misuse error.
C20_Witness ==
    /\ last.op = "get" /\ last.ctx \in Scopes /\ last.key = "B"
    /\ last.tagged.tag \in {"singleton", "transient"}
    /\ last.tagged.service.shape = "args"
    /\ services["A"].tag = "scoped"
    /\ scoped[last.ctx][services["A"].id] # Undefined
    /\ last.deps = << [collection |-> Host, key |-> "A", v |-> Undefined,
                       err |-> ScopeMisuse] >>
    /\ last.err = ScopeMisuse

====
